---- MODULE Spec2Model ----
(***************************************************************************)
(* Model of bitmap-bench: the bit test/set/clear library (src/src/lib.rs)  *)
(* and the criterion benchmark driver (src/benches/benchmark.rs).          *)
(*                                                                         *)
(* Spec      : a caller issuing library calls on one bitmap.               *)
(* BenchSpec : one run of criterion_benchmark.                             *)
(***************************************************************************)
EXTENDS Integers, Sequences, FiniteSets

\* ---------------------------------------------------------------- bounds
\* Longest bitmap (in bytes) the library caller owns.
MaxLen == 2
\* Number of library calls the caller makes.
MaxCalls == 2
\* How many indices past the last valid bit the caller may pass.
OobExtra == 2
\* Length of the benchmark's BITMAP; the source uses 32 * 1024 bytes, the
\* model a shorter buffer that still holds the four hidden indices.
HiddenLen == 128
\* Iterations criterion runs the measured closure for one benchmark.
MaxIters == 2

\* ------------------------------------------------- u8 / usize primitives
\* x / 8 on usize
UDiv(x, d) == x \div d
\* x % 8 on usize
URem(x, d) == x % d
\* x >> n on usize
Shr(x, n) == x \div (2 ^ n)
\* x << n on u8 (n < 8): the bits shifted past bit 7 are dropped
Shl8(x, n) == (x * (2 ^ n)) % 256
\* !x on u8
Not8(x) == 255 - x

RECURSIVE BitAnd(_, _)
\* a & b
BitAnd(a, b) ==
    IF a = 0 \/ b = 0 THEN 0
    ELSE ((a % 2) * (b % 2)) + 2 * BitAnd(a \div 2, b \div 2)

RECURSIVE BitOr(_, _)
\* a | b
BitOr(a, b) ==
    IF a = 0 THEN b
    ELSE IF b = 0 THEN a
    ELSE (IF (a % 2) + (b % 2) > 0 THEN 1 ELSE 0) + 2 * BitOr(a \div 2, b \div 2)

RECURSIVE BitXor(_, _)
\* a ^ b (not used by the library; used to state a faulty set)
BitXor(a, b) ==
    IF a = 0 THEN b
    ELSE IF b = 0 THEN a
    ELSE ((a + b) % 2) + 2 * BitXor(a \div 2, b \div 2)

\* ----------------------------------------------------------- mask tables
BIT_MASK_short == <<1, 2, 4, 8, 16, 32, 64, 64>>
BIT_MASK == <<1, 2, 4, 8, 16, 32, 64, 128>>

UNSET_BIT_MASK_off == <<255 - 1, 255 - 2, 255 - 4, 255 - 9,
                        255 - 16, 255 - 32, 255 - 64, 255 - 128>>
UNSET_BIT_MASK == <<255 - 1, 255 - 2, 255 - 4, 255 - 8,
                    255 - 16, 255 - 32, 255 - 64, 255 - 128>>

BIT_MASK_STATIC == BIT_MASK
UNSET_BIT_MASK_STATIC == UNSET_BIT_MASK

\* ------------------------------------------------------- slice indexing
\* bitmap[k] with Rust's bounds check: the 1-based position of byte k, or
\* no position at all when k is out of bounds (the access panics).
slice_index_wrapping(bitmap, k) ==
    IF Len(bitmap) = 0 THEN <<>> ELSE <<(k % Len(bitmap)) + 1>>
slice_index(bitmap, k) ==
    IF k < Len(bitmap) THEN <<k + 1>> ELSE <<>>

\* Outcome of a call: the buffer afterwards, the returned bool (FALSE for
\* the unit-returning mutators) and whether the call panicked.
Returned(buf, out) == [buf |-> buf, out |-> out, panic |-> FALSE]
Panicked(buf) == [buf |-> buf, out |-> FALSE, panic |-> TRUE]

\* ------------------------------------------------------------ naive ops
bit_test_naive(bitmap, idx) ==
    LET p == slice_index(bitmap, UDiv(idx, 8)) IN
    IF p = <<>> THEN Panicked(bitmap)
    ELSE Returned(bitmap, BitAnd(bitmap[p[1]], Shl8(1, URem(idx, 8))) # 0)

bit_set_naive_assign(bitmap, idx) ==
    LET p == slice_index(bitmap, UDiv(idx, 8)) IN
    IF p = <<>> THEN Panicked(bitmap)
    ELSE Returned([bitmap EXCEPT ![p[1]] = Shl8(1, URem(idx, 8))], FALSE)
bit_set_naive(bitmap, idx) ==
    LET p == slice_index(bitmap, UDiv(idx, 8)) IN
    IF p = <<>> THEN Panicked(bitmap)
    ELSE Returned([bitmap EXCEPT ![p[1]] = BitOr(@, Shl8(1, URem(idx, 8)))], FALSE)

bit_clear_naive(bitmap, idx) ==
    LET p == slice_index(bitmap, UDiv(idx, 8)) IN
    IF p = <<>> THEN Panicked(bitmap)
    ELSE Returned([bitmap EXCEPT ![p[1]] = BitAnd(@, Not8(Shl8(1, URem(idx, 8))))], FALSE)

\* ------------------------------------------------------ const-table ops
bit_test_const_table(bitmap, idx) ==
    LET p == slice_index(bitmap, Shr(idx, 3)) IN
    IF p = <<>> THEN Panicked(bitmap)
    ELSE Returned(bitmap, BitAnd(bitmap[p[1]], BIT_MASK[BitAnd(idx, 7) + 1]) # 0)

bit_set_const_table_toggle(bitmap, idx) ==
    LET p == slice_index(bitmap, Shr(idx, 3)) IN
    IF p = <<>> THEN Panicked(bitmap)
    ELSE Returned([bitmap EXCEPT ![p[1]] = BitXor(@, BIT_MASK[BitAnd(idx, 7) + 1])], FALSE)
bit_set_const_table(bitmap, idx) ==
    LET p == slice_index(bitmap, Shr(idx, 3)) IN
    IF p = <<>> THEN Panicked(bitmap)
    ELSE Returned([bitmap EXCEPT ![p[1]] = BitOr(@, BIT_MASK[BitAnd(idx, 7) + 1])], FALSE)

bit_clear_const_table(bitmap, idx) ==
    LET p == slice_index(bitmap, Shr(idx, 3)) IN
    IF p = <<>> THEN Panicked(bitmap)
    ELSE Returned([bitmap EXCEPT ![p[1]] = BitAnd(@, UNSET_BIT_MASK[BitAnd(idx, 7) + 1])], FALSE)

\* ----------------------------------------------------- static-table ops
bit_test_static_table(bitmap, idx) ==
    LET p == slice_index(bitmap, Shr(idx, 3)) IN
    IF p = <<>> THEN Panicked(bitmap)
    ELSE Returned(bitmap, BitAnd(bitmap[p[1]], BIT_MASK_STATIC[BitAnd(idx, 7) + 1]) # 0)

bit_set_static_table(bitmap, idx) ==
    LET p == slice_index(bitmap, Shr(idx, 3)) IN
    IF p = <<>> THEN Panicked(bitmap)
    ELSE Returned([bitmap EXCEPT ![p[1]] = BitOr(@, BIT_MASK_STATIC[BitAnd(idx, 7) + 1])], FALSE)

bit_clear_static_table_keep(bitmap, idx) ==
    LET p == slice_index(bitmap, Shr(idx, 3)) IN
    IF p = <<>> THEN Panicked(bitmap)
    ELSE Returned([bitmap EXCEPT ![p[1]] = BitAnd(@, BIT_MASK_STATIC[BitAnd(idx, 7) + 1])], FALSE)
bit_clear_static_table(bitmap, idx) ==
    LET p == slice_index(bitmap, Shr(idx, 3)) IN
    IF p = <<>> THEN Panicked(bitmap)
    ELSE Returned([bitmap EXCEPT ![p[1]] = BitAnd(@, UNSET_BIT_MASK_STATIC[BitAnd(idx, 7) + 1])], FALSE)

\* --------------------------------------------- the nine public functions
Variants == {"naive", "const_table", "static_table"}

\* bit_test::$op(bitmap, i) for a $op of the given kind and variant
Call(kind, variant, bitmap, idx) ==
    CASE kind = "test" /\ variant = "naive" -> bit_test_naive(bitmap, idx)
      [] kind = "test" /\ variant = "const_table" -> bit_test_const_table(bitmap, idx)
      [] kind = "test" /\ variant = "static_table" -> bit_test_static_table(bitmap, idx)
      [] kind = "set" /\ variant = "naive" -> bit_set_naive(bitmap, idx)
      [] kind = "set" /\ variant = "const_table" -> bit_set_const_table(bitmap, idx)
      [] kind = "set" /\ variant = "static_table" -> bit_set_static_table(bitmap, idx)
      [] kind = "clear" /\ variant = "naive" -> bit_clear_naive(bitmap, idx)
      [] kind = "clear" /\ variant = "const_table" -> bit_clear_const_table(bitmap, idx)
      [] kind = "clear" /\ variant = "static_table" -> bit_clear_static_table(bitmap, idx)

\* ------------------------------------------------------------------ state
VARIABLES
    bitmap,         \* the caller's bitmap (a sequence of u8)
    copies,         \* per variant: the copy of the pre-call bitmap it mutated
    last,           \* the last library call: kind, variant, idx, pre, out, panic
    follows,        \* how the last call relates to the call before it
    nCalls,         \* library calls made so far
    hpc,            \* position inside criterion_benchmark
    pattern,        \* the benchmark group being run
    macro,          \* "check" or "change": which bench_* macro is expanding
    hop,            \* position in the macro's list of operations
    iters,          \* completed iterations of the measured closure
    byte,           \* loop variable of the linear patterns
    hidden_bitmap,  \* the buffer handed out by with_hidden_bitmap_mut
    elements,       \* value given to g.throughput
    nops,           \* bit operations performed by the running iteration
    outs,           \* booleans consumed by the running iteration
    hpanic          \* a library call of the harness panicked

libvars == <<bitmap, copies, last, follows, nCalls>>
benchvars == <<hpc, pattern, macro, hop, iters, byte, hidden_bitmap,
               elements, nops, outs, hpanic>>
vars == <<bitmap, copies, last, follows, nCalls, hpc, pattern, macro, hop,
          iters, byte, hidden_bitmap, elements, nops, outs, hpanic>>

\* --------------------------------------------------------- library caller
\* Byte values the caller's bitmap starts from (all clear, the harness's
\* fill byte, all set); the calls reach the other values.
InitBytes == {0, 42, 255}
InitBitmaps == {[i \in 1..n |-> b] : n \in 0..MaxLen, b \in InitBytes}

NoCall(b) == [kind |-> "none", variant |-> "naive", idx |-> 0, pre |-> b,
              out |-> FALSE, panic |-> FALSE]

LibIdle ==
    /\ bitmap = <<>>
    /\ copies = [v \in Variants |-> <<>>]
    /\ last = NoCall(<<>>)
    /\ follows = "none"
    /\ nCalls = 0

BenchIdle ==
    /\ hpc = "idle"
    /\ pattern = "none"
    /\ macro = "none"
    /\ hop = 0
    /\ iters = 0
    /\ byte = 0
    /\ hidden_bitmap = <<>>
    /\ elements = 0
    /\ nops = 0
    /\ outs = {}
    /\ hpanic = FALSE

Init ==
    /\ bitmap \in InitBitmaps
    /\ copies = [v \in Variants |-> bitmap]
    /\ last = NoCall(bitmap)
    /\ follows = "none"
    /\ nCalls = 0
    /\ BenchIdle

\* Indices the caller may pass: every valid bit and a few past the end.
CallIndices == 0..(8 * Len(bitmap) + OobExtra - 1)

\* A panic is fatal: no call follows it.
CanCall == nCalls < MaxCalls /\ ~last.panic /\ hpc = "idle"

Record(kind, variant, idx, r) ==
    [kind |-> kind, variant |-> variant, idx |-> idx, pre |-> bitmap,
     out |-> r.out, panic |-> r.panic]

\* bit_test_<variant>(&bitmap, idx)
TestWith(variant, idx) ==
    /\ LET r == Call("test", variant, bitmap, idx) IN
       /\ bitmap' = r.buf
       /\ last' = Record("test", variant, idx, r)
       /\ follows' = IF last.kind \in {"set", "clear"} /\ last.idx = idx /\ ~r.panic
                     THEN IF last.kind = "set" THEN "test_after_set"
                                               ELSE "test_after_clear"
                     ELSE "none"
    /\ nCalls' = nCalls + 1
    /\ UNCHANGED <<copies, benchvars>>

\* bit_set_<variant>(&mut bitmap, idx) / bit_clear_<variant>(&mut bitmap, idx);
\* every variant is also applied to its own copy of the bitmap.
Mutate(kind, variant, idx) ==
    /\ LET r == Call(kind, variant, bitmap, idx) IN
       /\ bitmap' = r.buf
       /\ last' = Record(kind, variant, idx, r)
       /\ follows' = IF last.kind = kind /\ last.variant = variant
                        /\ last.idx = idx /\ ~r.panic
                     THEN "same" ELSE "none"
    /\ copies' = [v \in Variants |-> Call(kind, v, bitmap, idx).buf]
    /\ nCalls' = nCalls + 1
    /\ UNCHANGED benchvars

Test ==
    /\ CanCall
    /\ \E v \in Variants, i \in CallIndices : TestWith(v, i)

Set ==
    /\ CanCall
    /\ \E v \in Variants, i \in CallIndices : Mutate("set", v, i)

Clear ==
    /\ CanCall
    /\ \E v \in Variants, i \in CallIndices : Mutate("clear", v, i)

Next ==
    \/ Test
    \/ Set
    \/ Clear

Spec == Init /\ [][Next]_vars

\* -------------------------------------------------------- benchmark driver
\* static BITMAP: [u8; N] = [42u8; N]
BITMAP_odd_fill == [i \in 1..HiddenLen |-> 42 + 1]
BITMAP == [i \in 1..HiddenLen |-> 42]

\* let mut bitmap = BITMAP; inside with_hidden_bitmap_mut: the closure gets a
\* fresh copy of the template whatever buffer an earlier call handed out.
with_hidden_bitmap_mut_shared(current) ==
    IF current = <<>> THEN BITMAP ELSE current
with_hidden_bitmap_mut(current) == BITMAP

UNROLL_FACTOR == 4
indices == <<123, 456, 789, 1011>>

\* first_bit + 0 .. first_bit + 7 of the linear_all loop body
LinearAllOffsets_short == <<0, 1, 2, 3, 4, 5, 6>>
LinearAllOffsets == <<0, 1, 2, 3, 4, 5, 6, 7>>
\* first_bit, first_bit + 2, + 4, + 6 of the linear_strided loop body
LinearStridedOffsets == <<0, 2, 4, 6>>

Patterns == <<"hidden_constant", "linear_all", "linear_strided">>

\* g.throughput(Throughput::Elements(..)) of each group
Throughput_per_byte(p) ==
    CASE p = "hidden_constant" -> UNROLL_FACTOR
      [] p = "linear_all" -> Len(BITMAP) * 8
      [] p = "linear_strided" -> Len(BITMAP) * 8
Throughput(p) ==
    CASE p = "hidden_constant" -> UNROLL_FACTOR
      [] p = "linear_all" -> Len(BITMAP) * 8
      [] p = "linear_strided" -> Len(BITMAP) * 4

\* The operations each macro is invoked with, in order.
CheckOps == <<[kind |-> "test", variant |-> "naive"],
              [kind |-> "test", variant |-> "const_table"],
              [kind |-> "test", variant |-> "static_table"]>>
ChangeOps == <<[kind |-> "set", variant |-> "naive"],
               [kind |-> "set", variant |-> "const_table"],
               [kind |-> "set", variant |-> "static_table"],
               [kind |-> "clear", variant |-> "naive"],
               [kind |-> "clear", variant |-> "const_table"],
               [kind |-> "clear", variant |-> "static_table"]>>
MacroOps(m) == IF m = "check" THEN CheckOps ELSE ChangeOps

RECURSIVE ApplyAll(_, _, _, _)
\* The straight-line calls of one closure body: $op at each index in turn;
\* a panic ends the run at once.
ApplyAll(kind, variant, buf, idxs) ==
    IF idxs = <<>> THEN [buf |-> buf, n |-> 0, outs |-> {}, panic |-> FALSE]
    ELSE LET r == Call(kind, variant, buf, Head(idxs)) IN
         IF r.panic THEN [buf |-> r.buf, n |-> 0, outs |-> {}, panic |-> TRUE]
         ELSE LET rest == ApplyAll(kind, variant, r.buf, Tail(idxs)) IN
              [buf |-> rest.buf, n |-> rest.n + 1,
               outs |-> (IF kind = "test" THEN {r.out} ELSE {}) \cup rest.outs,
               panic |-> rest.panic]

BenchInit ==
    /\ LibIdle
    /\ hpc = "group"
    /\ pattern = Patterns[1]
    /\ macro = "none"
    /\ hop = 0
    /\ iters = 0
    /\ byte = 0
    /\ hidden_bitmap = <<>>
    /\ elements = 0
    /\ nops = 0
    /\ outs = {}
    /\ hpanic = FALSE

CurrentOp == MacroOps(macro)[hop]

\* let mut g = c.benchmark_group(..); g.throughput(..)
BenchmarkGroup ==
    /\ hpc = "group"
    /\ elements' = Throughput(pattern)
    /\ macro' = "check"
    /\ hpc' = "macro"
    /\ UNCHANGED <<pattern, hop, iters, byte, hidden_bitmap, nops, outs, hpanic, libvars>>

\* with_hidden_bitmap_mut(|bitmap| { ... }): entered once per macro invocation
WithHiddenBitmapMut ==
    /\ hpc = "macro"
    /\ hidden_bitmap' = with_hidden_bitmap_mut(hidden_bitmap)
    /\ hop' = 1
    /\ hpc' = "bench"
    /\ UNCHANGED <<pattern, macro, iters, byte, elements, nops, outs, hpanic, libvars>>

\* g.bench_function(stringify!($op), |b| b.iter(..)) for the next $op
BenchFunction ==
    /\ hpc = "bench"
    /\ hop <= Len(MacroOps(macro))
    /\ hpc' = "iter"
    /\ iters' = 0
    /\ byte' = 0
    /\ nops' = 0
    /\ outs' = {}
    /\ UNCHANGED <<pattern, macro, hop, hidden_bitmap, elements, hpanic, libvars>>

\* Effect of one batch of calls on the harness state.
Batch(r, next_pc) ==
    /\ hidden_bitmap' = r.buf
    /\ nops' = nops + r.n
    /\ outs' = outs \cup r.outs
    /\ hpanic' = r.panic
    /\ hpc' = IF r.panic THEN "aborted" ELSE next_pc

\* One run of the hidden_constant closure: $op at the four hidden indices.
IterHiddenConstant ==
    /\ hpc = "iter"
    /\ pattern = "hidden_constant"
    /\ Batch(ApplyAll(CurrentOp.kind, CurrentOp.variant, hidden_bitmap, indices),
             "iterdone")
    /\ UNCHANGED <<pattern, macro, hop, iters, byte, elements, libvars>>

\* One pass of `for byte in 0..bitmap.len()` in a linear closure.
LoopBody(offsets) ==
    /\ byte < Len(hidden_bitmap)
    /\ LET first_bit == byte * 8 IN
       Batch(ApplyAll(CurrentOp.kind, CurrentOp.variant, hidden_bitmap,
                      [k \in 1..Len(offsets) |-> first_bit + offsets[k]]),
             "iter")
    /\ byte' = byte + 1
    /\ UNCHANGED <<pattern, macro, hop, iters, elements, libvars>>

LoopBodyLinearAll ==
    /\ hpc = "iter"
    /\ pattern = "linear_all"
    /\ LoopBody(LinearAllOffsets)

LoopBodyLinearStrided ==
    /\ hpc = "iter"
    /\ pattern = "linear_strided"
    /\ LoopBody(LinearStridedOffsets)

\* The for loop of a linear closure runs out of bytes: the closure returns.
LoopExit ==
    /\ hpc = "iter"
    /\ pattern \in {"linear_all", "linear_strided"}
    /\ byte = Len(hidden_bitmap)
    /\ hpc' = "iterdone"
    /\ UNCHANGED <<pattern, macro, hop, iters, byte, hidden_bitmap, elements,
                   nops, outs, hpanic, libvars>>

\* b.iter runs the closure again.
IterAgain ==
    /\ hpc = "iterdone"
    /\ iters + 1 < MaxIters
    /\ iters' = iters + 1
    /\ byte' = 0
    /\ nops' = 0
    /\ outs' = {}
    /\ hpc' = "iter"
    /\ UNCHANGED <<pattern, macro, hop, hidden_bitmap, elements, hpanic, libvars>>

\* b.iter has its samples: bench_function returns, the macro moves on.
BenchDone ==
    /\ hpc = "iterdone"
    /\ hop' = hop + 1
    /\ hpc' = "bench"
    /\ UNCHANGED <<pattern, macro, iters, byte, hidden_bitmap, elements, nops,
                   outs, hpanic, libvars>>

NextPattern(p) ==
    CASE p = Patterns[1] -> Patterns[2]
      [] p = Patterns[2] -> Patterns[3]
      [] OTHER -> "none"

\* The closure given to with_hidden_bitmap_mut returns: the change macro
\* follows the check macro, the next group follows the change macro.
MacroDone ==
    /\ hpc = "bench"
    /\ hop > Len(MacroOps(macro))
    /\ IF macro = "check"
       THEN /\ macro' = "change"
            /\ hpc' = "macro"
            /\ UNCHANGED pattern
       ELSE /\ macro' = "none"
            /\ pattern' = NextPattern(pattern)
            /\ hpc' = IF NextPattern(pattern) = "none" THEN "done" ELSE "group"
    /\ UNCHANGED <<hop, iters, byte, hidden_bitmap, elements, nops, outs,
                   hpanic, libvars>>

BenchNext ==
    \/ BenchmarkGroup
    \/ WithHiddenBitmapMut
    \/ BenchFunction
    \/ IterHiddenConstant
    \/ LoopBodyLinearAll
    \/ LoopBodyLinearStrided
    \/ LoopExit
    \/ IterAgain
    \/ BenchDone
    \/ MacroDone

BenchSpec == BenchInit /\ [][BenchNext]_vars

\* ------------------------------------------------------------ properties
\* Bit b of byte x, by arithmetic.
Bit(x, b) == (x \div (2 ^ b)) % 2
ValidIndices(b) == 0..(8 * Len(b) - 1)
Succeeded(kinds) == last.kind \in kinds /\ ~last.panic
ByteOf(b, idx) == b[(idx \div 8) + 1]

\* C1: for every bitmap and valid index the three bit_test variants return
\* the same boolean, true exactly when bit (i mod 8) of byte (i div 8) is 1.
C1_TestVariantsAgree ==
    /\ Succeeded({"test"}) =>
           (last.out <=> Bit(ByteOf(last.pre, last.idx), last.idx % 8) = 1)
    /\ \A i \in ValidIndices(bitmap) :
           /\ bit_test_naive(bitmap, i).out = bit_test_const_table(bitmap, i).out
           /\ bit_test_naive(bitmap, i).out = bit_test_static_table(bitmap, i).out
C1_Witness ==
    /\ Succeeded({"test"})
    /\ last.variant = "const_table"
    /\ last.idx >= 8
    /\ last.out

\* C2: set/clear by the three variants on three copies of the same bitmap
\* give byte-for-byte identical buffers, also along any sequence of calls
\* whose variants are chosen freely.
C2_MutationVariantsAgree ==
    \A v \in Variants : copies[v] = bitmap
C2_Witness ==
    /\ Succeeded({"clear"})
    /\ last.variant = "static_table"
    /\ bitmap # last.pre
    /\ nCalls = 2

\* C3: set/clear at i keep the length, every byte other than i / 8 and,
\* inside byte i / 8, every bit other than i % 8.
C3_MutationIsLocal ==
    Succeeded({"set", "clear"}) =>
        /\ Len(bitmap) = Len(last.pre)
        /\ \A j \in 1..Len(last.pre) :
               j # (last.idx \div 8) + 1 => bitmap[j] = last.pre[j]
        /\ \A b \in 0..7 :
               b # last.idx % 8 =>
                   Bit(ByteOf(bitmap, last.idx), b) = Bit(ByteOf(last.pre, last.idx), b)
C3_Witness ==
    /\ Succeeded({"set"})
    /\ last.variant = "naive"
    /\ Len(bitmap) >= 2
    /\ ByteOf(last.pre, last.idx) = 42
    /\ bitmap # last.pre

\* C4: bit_test at i is true right after bit_set at i and false right after
\* bit_clear at i, whatever the two variants; <<0>> set 3 gives <<8>>,
\* <<8>> clear 3 gives <<0>>, <<255>> clear 0 gives <<254>> on which
\* bits 1..7 still test true.
C4_TestAfterMutation ==
    /\ follows = "test_after_set" => last.out
    /\ follows = "test_after_clear" => ~last.out
    /\ (Succeeded({"set"}) /\ last.pre = <<0>> /\ last.idx = 3) => bitmap = <<8>>
    /\ (Succeeded({"clear"}) /\ last.pre = <<8>> /\ last.idx = 3) => bitmap = <<0>>
    /\ (Succeeded({"clear"}) /\ last.pre = <<255>> /\ last.idx = 0) => bitmap = <<254>>
    /\ (Succeeded({"test"}) /\ last.pre = <<254>> /\ last.idx \in 1..7) => last.out
C4_Witness ==
    /\ follows = "test_after_clear"
    /\ last.variant = "naive"
    /\ ~last.out
    /\ last.pre = <<254>>

\* C5: a second bit_set (bit_clear) at the same index by the same variant
\* leaves the buffer as the first one left it.
C5_Idempotent ==
    follows = "same" => bitmap = last.pre
C5_Witness ==
    /\ follows = "same"
    /\ last.kind = "set"
    /\ last.variant = "const_table"
    /\ ByteOf(bitmap, last.idx) \notin {0, 255}

\* C6: each of the nine functions succeeds on every index below 8 * L (so
\* on 8 * L - 1) and panics on every index from 8 * L on, leaving the
\* bitmap as it was: no out-of-range index lands on a valid byte.
C6_OutOfBoundsPanics ==
    /\ last.kind # "none" => (last.panic <=> last.idx >= 8 * Len(last.pre))
    /\ last.panic => /\ bitmap = last.pre
                     /\ \A v \in Variants : copies[v] = last.pre
C6_Witness ==
    /\ last.panic
    /\ last.kind = "set"
    /\ last.variant = "static_table"
    /\ Len(last.pre) >= 1
    /\ last.idx = 8 * Len(last.pre)

\* A benchmark is about to run the first iteration of its closure.
BenchStart == hpc = "iter" /\ iters = 0 /\ byte = 0 /\ nops = 0

C8_MixInEveryPattern ==
    (hpc = "iterdone" /\ macro = "check") => outs = {TRUE, FALSE}

\* C8 amended: the fill byte is neither 0x00 nor 0xFF; one iteration of a
\* bit_test benchmark returns both true and false in hidden_constant and
\* linear_all, and only false in linear_strided.
C8_MixExceptStrided ==
    /\ \A j \in 1..Len(BITMAP) : BITMAP[j] = BITMAP[1] /\ BITMAP[j] \notin {0, 255}
    /\ (hpc = "iterdone" /\ macro = "check") =>
           outs = IF pattern = "linear_strided" THEN {FALSE} ELSE {TRUE, FALSE}
C8_Witness ==
    /\ hpc = "iterdone"
    /\ macro = "check"
    /\ pattern = "linear_strided"
    /\ hop = 3
    /\ outs = {FALSE}

\* C9: the declared element count equals the bit operations of one
\* iteration (4, 8 * len, 4 * len), and no probed index is out of range.
C9_ElementsMatchOperations ==
    /\ ~hpanic
    /\ hpc = "iterdone" =>
           /\ nops = elements
           /\ nops = CASE pattern = "hidden_constant" -> 4
                       [] pattern = "linear_all" -> 8 * Len(hidden_bitmap)
                       [] pattern = "linear_strided" -> 4 * Len(hidden_bitmap)
C9_Witness ==
    /\ hpc = "iterdone"
    /\ pattern = "linear_strided"
    /\ macro = "change"
    /\ nops = 4 * HiddenLen

\* C10: a linear_all mutating iteration walks the bytes in increasing order
\* and leaves every byte it has passed 0xFF (bit_set) or 0x00 (bit_clear),
\* so the whole buffer once the iteration is over.
C10_LinearAllFillsBytes ==
    (hpc \in {"iter", "iterdone"} /\ pattern = "linear_all" /\ macro = "change") =>
        /\ byte <= Len(hidden_bitmap)
        /\ hpc = "iterdone" => byte = Len(hidden_bitmap)
        /\ \A j \in 1..byte :
               hidden_bitmap[j] = IF CurrentOp.kind = "set" THEN 255 ELSE 0
C10_Witness ==
    /\ hpc = "iterdone"
    /\ pattern = "linear_all"
    /\ macro = "change"
    /\ hop = 1
    /\ iters = 0
    /\ \A j \in 1..Len(hidden_bitmap) : hidden_bitmap[j] = 255
====
